---- MODULE Spec2Model ----
(***************************************************************************)
(* BenchmarkRecord.py of QUARK: the BenchmarkRecord of one benchmark run   *)
(* (run metadata plus a deque of Metrics objects) and BenchmarkRecordStored*)
(* (a wrapper around a record read back from results.json).                *)
(*                                                                         *)
(* Python objects that are shared by reference (deques, the dictionary     *)
(* handed to BenchmarkRecordStored) live in heaps indexed by references;   *)
(* Python values are tagged ([t |-> type, v |-> value]) so that values of  *)
(* different types can be compared; a dict is the sequence of its          *)
(* <<key, value>> pairs in insertion order.                                *)
(***************************************************************************)
EXTENDS Integers, Sequences, FiniteSets, TLC

VARIABLES
    records,    \* the caller's BenchmarkRecord objects, by variable name
    deques,     \* heap of deque objects: reference -> sequence of Metrics
    ret,        \* what the last call returned (or raised)
    lastCall,   \* the last call: [op |-> method, self |-> record name]
    captured,   \* a document returned by get() that the caller kept
    stored,     \* the BenchmarkRecordStored object
    documents,  \* heap of dict objects handed to BenchmarkRecordStored
    given       \* the dictionary as it was given to BenchmarkRecordStored

vars == <<records, deques, ret, lastCall, captured, stored, documents, given>>

(***************************************************************************)
(* Bounds of the model.                                                    *)
(***************************************************************************)
\* longest chain a BenchmarkRecord is grown to under Spec
MaxChain == 4
\* longest chain under SpecCopy (original and copy)
MaxCopyChain == 2
\* longest chain under SpecHash (two independently built records)
MaxHashChain == 2
\* longest chain behind a document handed to BenchmarkRecordStored
MaxStoredChain == 2

(***************************************************************************)
(* Python values.                                                          *)
(***************************************************************************)
PyNone == [t |-> "none", v |-> 0]

PyInt(n) == [t |-> "int", v |-> n]

PyStr(s) == [t |-> "str", v |-> s]

PyDict(d) == [t |-> "dict", v |-> d]

PyRef(r) == [t |-> "ref", v |-> r]

PyRaise(e) == [t |-> "raise", v |-> e]

\* {}: the empty mapping
EmptyDict == PyDict(<<>>)

dict_keys(d) == {d[i][1] : i \in DOMAIN d}

dict_has(d, k) == k \in dict_keys(d)

dict_get(d, k) == d[CHOOSE i \in DOMAIN d : d[i][1] = k][2]

\* d[k] = v: an existing key keeps its place and takes the new value, a new
\* key is added at the end
dict_set_keep(d, k, v) == IF dict_has(d, k) THEN d ELSE Append(d, <<k, v>>)

dict_set(d, k, v) ==
    IF dict_has(d, k)
    THEN [i \in DOMAIN d |-> IF d[i][1] = k THEN <<k, v>> ELSE d[i]]
    ELSE Append(d, <<k, v>>)

\* Python's == on dicts ignores insertion order
dict_eq(a, b) == {a[i] : i \in DOMAIN a} = {b[i] : i \in DOMAIN b}

(***************************************************************************)
(* json.dumps(obj, sort_keys=True).                                        *)
(***************************************************************************)
\* every key of a hashed structure, in the order of Python's str comparison
KeyOrder == <<"backend", "mode", "module_config", "module_name", "size", "submodule">>

key_rank(k) == CHOOSE i \in DOMAIN KeyOrder : KeyOrder[i] = k

RECURSIVE insert_item(_, _)
insert_item(sorted, item) ==
    IF sorted = <<>> THEN <<item>>
    ELSE IF key_rank(item[1]) < key_rank(Head(sorted)[1])
         THEN <<item>> \o sorted
         ELSE <<Head(sorted)>> \o insert_item(Tail(sorted), item)

RECURSIVE sort_items(_)
sort_items(d) ==
    IF d = <<>> THEN <<>>
    ELSE insert_item(sort_items(SubSeq(d, 1, Len(d) - 1)), d[Len(d)])

\* sort_keys=False: the items in insertion order
items_in_insertion_order(d) == d

\* sort_keys=True: the items of a dict in the order they are written
items_to_dump(d) == sort_items(d)

RECURSIVE json_dumps(_)
RECURSIVE json_items(_)
json_items(items) ==
    IF items = <<>> THEN ""
    ELSE "\"" \o items[1][1] \o "\": " \o json_dumps(items[1][2])
         \o (IF Len(items) > 1 THEN ", " \o json_items(Tail(items)) ELSE "")

json_dumps(x) ==
    CASE x.t = "none" -> "null"
      [] x.t = "int"  -> ToString(x.v)
      [] x.t = "str"  -> "\"" \o x.v \o "\""
      [] x.t = "dict" -> "{" \o json_items(items_to_dump(x.v)) \o "}"

\* hash() of a str: within one process a function of the string's characters
\* (the value itself is seeded per process; collisions are not modelled)
PyHash(s) == [t |-> "hash", v |-> s]

(***************************************************************************)
(* Metrics objects (Metrics.py is not part of the sources at hand): a      *)
(* module's name, config and total_time, and the mapping its get() returns.*)
(***************************************************************************)
Metrics(name, config, time, extra) ==
    [module_name |-> name, module_config |-> config, total_time |-> time,
     summary |-> <<<<"module_name", PyStr(name)>>, <<"total_time", PyInt(time)>>>> \o extra]

Metrics_get(m) == m.summary

ModA == Metrics("mapping", <<<<"size", PyInt(4)>>>>, 10, <<>>)

ModB == Metrics("solving", <<<<"backend", PyStr("x")>>>>, 25, <<<<"solution_quality", PyInt(3)>>>>)

\* a module whose own summary already holds the keys the flattening injects
ModC == Metrics("device", <<>>, 7,
                <<<<"module_level", PyInt(99)>>, <<"submodule", PyDict(<<<<"own", PyInt(1)>>>>)>>,
                  <<"shots", PyInt(5)>>>>)

ModD == Metrics("preprocess", <<<<"size", PyInt(4)>>, <<"backend", PyStr("x")>>>>, 3, <<>>)

Modules == {ModA, ModB, ModC, ModD}

\* modules that differ from HashBase in one thing each
HashBase == Metrics("mapping", <<<<"size", PyInt(4)>>, <<"backend", PyStr("x")>>>>, 10, <<>>)

\* another Metrics object with an equal config (its keys inserted in the other
\* order), another total_time and another summary
HashPermuted == Metrics("mapping", <<<<"backend", PyStr("x")>>, <<"size", PyInt(4)>>>>, 25,
                        <<<<"solution_quality", PyInt(3)>>>>)

\* another module name
HashOtherName == Metrics("solving", <<<<"size", PyInt(4)>>, <<"backend", PyStr("x")>>>>, 10, <<>>)

\* another config value (the string "4", not the number 4)
HashOtherValue == Metrics("mapping", <<<<"size", PyStr("4")>>, <<"backend", PyStr("x")>>>>, 10, <<>>)

\* another config key
HashOtherKey == Metrics("mapping", <<<<"size", PyInt(4)>>, <<"mode", PyStr("x")>>>>, 10, <<>>)

HashModules == {HashBase, HashPermuted, HashOtherName, HashOtherValue, HashOtherKey}

\* a second module with the total_time of ModA
ModE == Metrics("solving", <<<<"backend", PyStr("x")>>>>, 10, <<>>)

CopyModules == {ModA, ModE}

(***************************************************************************)
(* collections.deque and copy.deepcopy.                                    *)
(***************************************************************************)
deque_append(q, x) == Append(q, x)

deque_appendleft(q, x) == <<x>> \o q

\* a reference no object of heap h has yet
NewRef(h) == CHOOSE r \in 1..(Cardinality(DOMAIN h) + 1) : r \notin DOMAIN h

\* list_copy = llist: a second name for the same deque
alias_deque(h, ref) == [heap |-> h, ref |-> ref]

\* deepcopy(llist): a new deque object holding copies of the Metrics objects
deepcopy_deque(h, ref) ==
    LET new == NewRef(h) IN [heap |-> h @@ (new :> h[ref]), ref |-> new]

\* copy.copy(self): a new record object whose fields name the same objects
shallow_copy_record(h, rec) == [heap |-> h, rec |-> rec]

\* deepcopy(self): a new record object with a deque of its own
deepcopy_record(h, rec) ==
    LET c == deepcopy_deque(h, rec.linked_list_metrics)
    IN  [heap |-> c.heap, rec |-> [rec EXCEPT !.linked_list_metrics = c.ref]]

\* the objects still referenced once a call has returned; the rest is freed
Reachable(h, recs) ==
    [r \in {recs[n].linked_list_metrics : n \in DOMAIN recs} |-> h[r]]

(***************************************************************************)
(* class BenchmarkRecord.  A method is an operator from the heap of deques *)
(* and the record to the heap after the call and what the call returns.    *)
(***************************************************************************)
BenchmarkRecord(item, timestamp, revision, uncommitted, repetition, total, ref) ==
    [benchmark_backlog_item_number |-> item,
     timestamp |-> timestamp,
     git_revision_number |-> revision,
     git_uncommitted_changes |-> uncommitted,
     repetition |-> repetition,
     total_repetitions |-> total,
     total_time |-> PyNone,
     total_time_unit |-> "ms",
     linked_list_metrics |-> ref]

\* a faulty variant: the append also adds the module's time to total_time
append_module_record_right_adding_time(h, self, module_record) ==
    [heap |-> [h EXCEPT ![self.linked_list_metrics] = deque_append(@, module_record)],
     self |-> [self EXCEPT !.total_time =
                   IF @.t = "int" THEN PyInt(@.v + module_record.total_time) ELSE @]]

append_module_record_right(h, self, module_record) ==
    [heap |-> [h EXCEPT ![self.linked_list_metrics] = deque_append(@, module_record)],
     self |-> self]

\* a faulty variant: appendleft replaced by append
append_module_record_left_at_end(h, self, module_record) ==
    [heap |-> [h EXCEPT ![self.linked_list_metrics] = deque_append(@, module_record)],
     self |-> self]

append_module_record_left(h, self, module_record) ==
    [heap |-> [h EXCEPT ![self.linked_list_metrics] = deque_appendleft(@, module_record)],
     self |-> self]

RECURSIVE SumTimes(_)
SumTimes(q) == IF q = <<>> THEN 0 ELSE Head(q).total_time + SumTimes(Tail(q))

\* a faulty variant: self.total_time += sum(...)
sum_up_times_accumulating(h, self) ==
    [heap |-> h,
     self |-> [self EXCEPT !.total_time =
                   PyInt((IF @.t = "int" THEN @.v ELSE 0) + SumTimes(h[self.linked_list_metrics]))]]

sum_up_times(h, self) ==
    [heap |-> h,
     self |-> [self EXCEPT !.total_time = PyInt(SumTimes(h[self.linked_list_metrics]))]]

\* a faulty variant: the node leaves the module's config out
config_node_without_config(next_item, submodule) ==
    PyDict(<<<<"module_name", PyStr(next_item.module_name)>>,
             <<"submodule", submodule>>>>)

\* the dictionary hash_config returns for next_item
config_node(next_item, submodule) ==
    PyDict(<<<<"module_name", PyStr(next_item.module_name)>>,
             <<"module_config", PyDict(next_item.module_config)>>,
             <<"submodule", submodule>>>>)

RECURSIVE hash_config(_, _)
hash_config(h, llist) ==
    IF h[llist] = <<>>
    THEN [heap |-> h, ret |-> PyRaise("IndexError")]
    ELSE LET next_item == Head(h[llist])
             h1 == [h EXCEPT ![llist] = Tail(@)]
             sub == IF h1[llist] # <<>> THEN hash_config(h1, llist)
                    ELSE [heap |-> h1, ret |-> EmptyDict]
         IN  [heap |-> sub.heap, ret |-> config_node(next_item, sub.ret)]

start_hash_config(h, self) ==
    LET list_copy == deepcopy_deque(h, self.linked_list_metrics)
        config == hash_config(list_copy.heap, list_copy.ref)
    IN  IF config.ret.t = "raise" THEN config
        ELSE [heap |-> config.heap, ret |-> PyHash(json_dumps(config.ret))]

\* {**items, key: value}
dict_display(items, key, value) == dict_set(items, key, value)

RECURSIVE linked_list_to_dict(_, _, _)
linked_list_to_dict(h, llist, module_level) ==
    IF h[llist] = <<>>
    THEN [heap |-> h, ret |-> PyRaise("IndexError")]
    ELSE LET next_item == Head(h[llist])
             h1 == [h EXCEPT ![llist] = Tail(@)]
             sub == IF h1[llist] # <<>> THEN linked_list_to_dict(h1, llist, module_level + 1)
                    ELSE [heap |-> h1, ret |-> EmptyDict]
         IN  [heap |-> sub.heap,
              ret |-> PyDict(dict_display(dict_display(Metrics_get(next_item),
                                                       "module_level", PyInt(module_level)),
                                          "submodule", sub.ret))]

start_linked_list_to_dict(h, self) ==
    LET list_copy == deepcopy_deque(h, self.linked_list_metrics)
    IN  linked_list_to_dict(list_copy.heap, list_copy.ref, 0)

get(h, self) ==
    LET config_hash == start_hash_config(h, self)
        module == start_linked_list_to_dict(config_hash.heap, self)
    IN  IF config_hash.ret.t = "raise" THEN config_hash
        ELSE IF module.ret.t = "raise" THEN module
        ELSE [heap |-> module.heap,
              ret |-> PyDict(<<
                <<"benchmark_backlog_item_number", PyInt(self.benchmark_backlog_item_number)>>,
                <<"timestamp", PyStr(self.timestamp)>>,
                <<"config_hash", config_hash.ret>>,
                <<"total_time", self.total_time>>,
                <<"total_time_unit", PyStr(self.total_time_unit)>>,
                <<"git_revision_number", PyStr(self.git_revision_number)>>,
                <<"git_uncommitted_changes", PyStr(self.git_uncommitted_changes)>>,
                <<"repetition", PyInt(self.repetition)>>,
                <<"total_repetitions", PyInt(self.total_repetitions)>>,
                <<"module", module.ret>> >>)]

copy(h, self) == deepcopy_record(h, self)

\* the chain of the record the caller calls n
Chain(n) == deques[records[n].linked_list_metrics]

(***************************************************************************)
(* class BenchmarkRecordStored.  self.record is a reference to the dict    *)
(* the constructor was given.                                              *)
(***************************************************************************)
BenchmarkRecordStored(record) == [record |-> record]

stored_get(docs, self) == [heap |-> docs, ret |-> PyRef(self.record)]

\* a faulty variant: the dummy writes a total into the stored record
stored_sum_up_times_writing(docs, self) ==
    [heap |-> [docs EXCEPT ![self.record] = PyDict(dict_set(@.v, "total_time", PyInt(0)))],
     ret |-> PyNone]

stored_sum_up_times(docs, self) == [heap |-> docs, ret |-> PyNone]

(***************************************************************************)
(* The calls of the caller (the BenchmarkManager), one action per method.  *)
(***************************************************************************)
AppendModuleRecordRight(n, m, bound) ==
    /\ n \in DOMAIN records
    /\ Len(Chain(n)) < bound
    /\ LET r == append_module_record_right(deques, records[n], m)
           recs == [records EXCEPT ![n] = r.self]
       IN  /\ records' = recs
           /\ deques' = Reachable(r.heap, recs)
    /\ ret' = PyNone
    /\ lastCall' = [op |-> "append_module_record_right", self |-> n]
    /\ UNCHANGED <<captured, stored, documents, given>>

AppendModuleRecordLeft(n, m, bound) ==
    /\ n \in DOMAIN records
    /\ Len(Chain(n)) < bound
    /\ LET r == append_module_record_left(deques, records[n], m)
           recs == [records EXCEPT ![n] = r.self]
       IN  /\ records' = recs
           /\ deques' = Reachable(r.heap, recs)
    /\ ret' = PyNone
    /\ lastCall' = [op |-> "append_module_record_left", self |-> n]
    /\ UNCHANGED <<captured, stored, documents, given>>

SumUpTimes(n) ==
    /\ n \in DOMAIN records
    /\ LET r == sum_up_times(deques, records[n])
           recs == [records EXCEPT ![n] = r.self]
       IN  /\ records' = recs
           /\ deques' = Reachable(r.heap, recs)
    /\ ret' = PyNone
    /\ lastCall' = [op |-> "sum_up_times", self |-> n]
    /\ UNCHANGED <<captured, stored, documents, given>>

Get(n) ==
    /\ n \in DOMAIN records
    /\ LET r == get(deques, records[n])
       IN  /\ deques' = Reachable(r.heap, records)
           /\ ret' = r.ret
    /\ lastCall' = [op |-> "get", self |-> n]
    /\ UNCHANGED <<records, captured, stored, documents, given>>

StartHashConfig(n) ==
    /\ n \in DOMAIN records
    /\ LET r == start_hash_config(deques, records[n])
       IN  /\ deques' = Reachable(r.heap, records)
           /\ ret' = r.ret
    /\ lastCall' = [op |-> "start_hash_config", self |-> n]
    /\ UNCHANGED <<records, captured, stored, documents, given>>

\* cp = rec.copy()
Copy ==
    /\ "cp" \notin DOMAIN records
    /\ LET r == copy(deques, records["rec"])
           recs == records @@ ("cp" :> r.rec)
       IN  /\ records' = recs
           /\ deques' = Reachable(r.heap, recs)
    /\ ret' = [t |-> "record", v |-> "cp"]
    /\ lastCall' = [op |-> "copy", self |-> "rec"]
    /\ UNCHANGED <<captured, stored, documents, given>>

\* doc = rec.get(): the caller keeps the document that get() returns
KeepDocument ==
    /\ captured = PyNone
    /\ "cp" \notin DOMAIN records
    /\ LET r == get(deques, records["rec"])
       IN  /\ r.ret.t = "dict"
           /\ deques' = Reachable(r.heap, records)
           /\ ret' = r.ret
           /\ captured' = r.ret
    /\ lastCall' = [op |-> "get", self |-> "rec"]
    /\ UNCHANGED <<records, stored, documents, given>>

StoredGet ==
    /\ LET r == stored_get(documents, stored)
       IN  /\ documents' = r.heap
           /\ ret' = r.ret
    /\ lastCall' = [op |-> "get", self |-> "stored"]
    /\ UNCHANGED <<records, deques, captured, stored, given>>

StoredSumUpTimes ==
    /\ LET r == stored_sum_up_times(documents, stored)
       IN  /\ documents' = r.heap
           /\ ret' = r.ret
    /\ lastCall' = [op |-> "sum_up_times", self |-> "stored"]
    /\ UNCHANGED <<records, deques, captured, stored, given>>

(***************************************************************************)
(* Spec: one BenchmarkRecord, grown at both ends, summed and read.         *)
(***************************************************************************)
NoStored ==
    /\ stored = PyNone
    /\ documents = <<>>
    /\ given = PyNone

Init ==
    /\ records = [rec |-> BenchmarkRecord(1, "T0", "abc123", "false", 1, 3, 1)]
    /\ deques = (1 :> <<>>)
    /\ ret = PyNone
    /\ lastCall = [op |-> "__init__", self |-> "rec"]
    /\ captured = PyNone
    /\ NoStored

Next ==
    \/ \E m \in Modules : AppendModuleRecordRight("rec", m, MaxChain)
    \/ \E m \in Modules : AppendModuleRecordLeft("rec", m, MaxChain)
    \/ SumUpTimes("rec")
    \/ Get("rec")

Spec == Init /\ [][Next]_vars

(***************************************************************************)
(* SpecCopy: a record, a copy() of it and a kept document.                 *)
(***************************************************************************)
NextCopy ==
    \/ \E n \in {"rec", "cp"}, m \in CopyModules : AppendModuleRecordRight(n, m, MaxCopyChain)
    \/ \E n \in {"rec", "cp"}, m \in CopyModules : AppendModuleRecordLeft(n, m, MaxCopyChain)
    \/ \E n \in {"rec", "cp"} : SumUpTimes(n)
    \/ Copy
    \/ KeepDocument

SpecCopy == Init /\ [][NextCopy]_vars

(***************************************************************************)
(* SpecHash: two records built independently of each other, one by         *)
(* appending at the right end and one by appending at the left end.        *)
(***************************************************************************)
InitHash ==
    /\ records = [rec |-> BenchmarkRecord(1, "T0", "abc123", "false", 1, 3, 1),
                  other |-> BenchmarkRecord(2, "T1", "def456", "true", 2, 3, 2)]
    /\ deques = (1 :> <<>>) @@ (2 :> <<>>)
    /\ ret = PyNone
    /\ lastCall = [op |-> "__init__", self |-> "other"]
    /\ captured = PyNone
    /\ NoStored

NextHash ==
    \/ \E m \in HashModules : AppendModuleRecordRight("rec", m, MaxHashChain)
    \/ \E m \in HashModules : AppendModuleRecordLeft("other", m, MaxHashChain)
    \/ \E n \in {"rec", "other"} : StartHashConfig(n)

SpecHash == InitHash /\ [][NextHash]_vars

(***************************************************************************)
(* SpecStored: a BenchmarkRecordStored around a document of an earlier run.*)
(***************************************************************************)
ChainsUpTo(S, n) == UNION {[1..k -> S] : k \in 0..n}

\* what get() returned in an earlier run, as read back from results.json
GivenDocuments ==
    {get((1 :> c), [BenchmarkRecord(1, "T0", "abc123", "false", 1, 3, 1)
                        EXCEPT !.total_time = t]).ret :
        c \in ChainsUpTo(Modules, MaxStoredChain) \ {<<>>}, t \in {PyNone, PyInt(35)}}
    \cup {EmptyDict}

InitStored ==
    /\ given \in GivenDocuments
    /\ documents = (1 :> given)
    /\ stored = BenchmarkRecordStored(1)
    /\ records = <<>>
    /\ deques = <<>>
    /\ ret = PyNone
    /\ lastCall = [op |-> "__init__", self |-> "stored"]
    /\ captured = PyNone

NextStored ==
    \/ StoredGet
    \/ StoredSumUpTimes

SpecStored == InitStored /\ [][NextStored]_vars

(***************************************************************************)
(* Properties of the records and of the documents they return.             *)
(***************************************************************************)
TotalTime(n) == records[n].total_time

Appends == {"append_module_record_right", "append_module_record_left"}

\* the keys linked_list_to_dict adds to a module's summary
InjectedKeys == {"module_level", "submodule"}

\* the node at nesting depth i of a flattened document
RECURSIVE NodeAt(_, _)
NodeAt(module, i) ==
    IF i = 0 THEN module ELSE NodeAt(dict_get(module.v, "submodule"), i - 1)

\* the node at depth i - 1 is that of the i-th module of the chain
NodeIsModule(module, chain, i) ==
    LET node == NodeAt(module, i - 1)
        summary == Metrics_get(chain[i])
    IN  /\ node.t = "dict"
        /\ dict_keys(node.v) = dict_keys(summary) \cup InjectedKeys
        /\ Cardinality(dict_keys(node.v)) = Len(node.v)
        /\ dict_get(node.v, "module_level") = PyInt(i - 1)
        /\ \A k \in dict_keys(summary) \ InjectedKeys :
               dict_get(node.v, k) = dict_get(summary, k)

\* module lists the chain: one node per module, in chain order, then {}
ListsChain(module, chain) ==
    /\ \A i \in 1..Len(chain) : NodeIsModule(module, chain, i)
    /\ NodeAt(module, Len(chain)) = EmptyDict

\* C1: get() on a record to which no module was ever appended does not fail:
\* it returns a document whose 'module' is the empty mapping and whose
\* 'config_hash' is the hash of the empty configuration.
C1_GetOnEmptyChain ==
    (lastCall = [op |-> "get", self |-> "rec"] /\ Chain("rec") = <<>>)
        => /\ ret.t = "dict"
           /\ dict_get(ret.v, "module") = EmptyDict
           /\ dict_get(ret.v, "config_hash") = PyHash(json_dumps(EmptyDict))

\* C2: a right-append puts the module after, a left-append before, all the
\* modules already in the chain, and the 'module' subtree get() returns for a
\* non-empty chain lists the chain: the node at depth i has module_level i and
\* the summary fields of the i-th module, nested in chain order down to an
\* empty mapping, as deep as the chain is long.
C2_ModuleSubtreeInChainOrder ==
    [][/\ lastCall'.op = "append_module_record_right"
            => \E m \in Modules : Chain("rec")' = Chain("rec") \o <<m>>
       /\ lastCall'.op = "append_module_record_left"
            => \E m \in Modules : Chain("rec")' = <<m>> \o Chain("rec")
       /\ (lastCall'.op = "get" /\ Chain("rec") # <<>>)
            => /\ ret'.t = "dict"
               /\ ListsChain(dict_get(ret'.v, "module"), Chain("rec"))]_vars

\* right-appending A, B, C and left-appending D gives levels 0..3 = D, A, B, C
C2_Witness ==
    /\ lastCall.op = "get"
    /\ Chain("rec") = <<ModD, ModA, ModB, ModC>>
    /\ ret.t = "dict"
    /\ dict_get(NodeAt(dict_get(ret.v, "module"), 0).v, "module_name") = PyStr("preprocess")
    /\ dict_get(NodeAt(dict_get(ret.v, "module"), 3).v, "module_name") = PyStr("device")
    /\ dict_get(NodeAt(dict_get(ret.v, "module"), 3).v, "submodule") = EmptyDict

\* the sum of the modules' total_time, taken from the last module backwards
RECURSIVE ArithmeticSum(_)
ArithmeticSum(chain) ==
    IF chain = <<>> THEN 0
    ELSE ArithmeticSum(SubSeq(chain, 1, Len(chain) - 1)) + chain[Len(chain)].total_time

\* the configuration of the modules from the i-th on, built without consuming
\* the chain
RECURSIVE ConfigFrom(_, _)
ConfigFrom(chain, i) ==
    IF i > Len(chain) THEN EmptyDict
    ELSE PyDict(<<<<"module_config", PyDict(chain[i].module_config)>>,
                  <<"module_name", PyStr(chain[i].module_name)>>,
                  <<"submodule", ConfigFrom(chain, i + 1)>>>>)

\* C4: sum_up_times() sets total_time to the arithmetic sum of the total_time
\* of the modules in the chain, however the chain was built; to 0 on an empty
\* chain, without error; and a second call with no append in between leaves
\* total_time as the first call set it.
C4_SumUpTimes ==
    [][lastCall'.op = "sum_up_times"
          => /\ TotalTime("rec")' = PyInt(ArithmeticSum(Chain("rec")))
             /\ Chain("rec") = <<>> => TotalTime("rec")' = PyInt(0)
             /\ lastCall.op = "sum_up_times" => TotalTime("rec")' = TotalTime("rec")
             /\ ret' = PyNone
             /\ Chain("rec")' = Chain("rec")]_vars

C4_Witness ==
    /\ lastCall.op = "sum_up_times"
    /\ Chain("rec") = <<ModD, ModA, ModB, ModC>>
    /\ TotalTime("rec") = PyInt(45)

\* C7: get() on a record with a non-empty chain leaves the record as it was
\* (the chain holds the same modules in the same order), a get() right after
\* a get() returns an equal document, and the document get() returns lists
\* the chain as it is at the call, any module appended since included, in
\* 'module' and in 'config_hash'.
C7_GetLeavesRecordUnchanged ==
    [][(lastCall'.op = "get" /\ Chain("rec") # <<>>)
          => /\ Chain("rec")' = Chain("rec")
             /\ records' = records
             /\ ret'.t = "dict"
             /\ lastCall.op = "get" => ret' = ret
             /\ ListsChain(dict_get(ret'.v, "module"), Chain("rec")')
             /\ dict_get(ret'.v, "config_hash")
                    = PyHash(json_dumps(ConfigFrom(Chain("rec")', 1)))]_vars

C7_Witness ==
    /\ lastCall.op = "get"
    /\ Chain("rec") = <<ModA, ModB>>
    /\ ret.t = "dict"
    /\ dict_get(ret.v, "config_hash") = PyHash(json_dumps(ConfigFrom(<<ModA, ModB>>, 1)))
    /\ NodeAt(dict_get(ret.v, "module"), 2) = EmptyDict

\* C8: total_time is None until sum_up_times() is called, only sum_up_times()
\* changes it (to the sum over the chain as it is at that call), and get()
\* reports the value it has: after an append that follows sum_up_times() the
\* reported total_time does not include the new module.
C8_TotalTimeFromLastSumUpTimes ==
    /\ TotalTime("rec") = PyNone
    /\ [][/\ lastCall'.op # "sum_up_times" => TotalTime("rec")' = TotalTime("rec")
          /\ lastCall'.op = "sum_up_times"
                => TotalTime("rec")' = PyInt(ArithmeticSum(Chain("rec")))
          /\ (lastCall'.op = "get" /\ ret'.t = "dict")
                => dict_get(ret'.v, "total_time") = TotalTime("rec")]_vars

\* sum_up_times() on <<ModA>>, then ModB appended, then get()
C8_Witness ==
    /\ lastCall.op = "get"
    /\ ret.t = "dict"
    /\ Chain("rec") = <<ModA, ModB>>
    /\ dict_get(ret.v, "total_time") = PyInt(10)

\* C10: when a module's own summary holds a key 'module_level' or 'submodule',
\* the node built for it carries the injected values (its depth, and the next
\* module's node or the empty mapping), not the module's own, and keeps every
\* other summary field as it is.
C10_InjectedKeysWin ==
    (lastCall.op = "get" /\ ret.t = "dict")
        => \A i \in 1..Len(Chain("rec")) :
              LET summary == Metrics_get(Chain("rec")[i])
                  module == dict_get(ret.v, "module")
                  node == NodeAt(module, i - 1)
              IN  dict_keys(summary) \cap InjectedKeys # {}
                    => /\ dict_get(node.v, "module_level") = PyInt(i - 1)
                       /\ Cardinality(dict_keys(node.v)) = Len(node.v)
                       /\ IF i < Len(Chain("rec"))
                          THEN NodeIsModule(module, Chain("rec"), i + 1)
                          ELSE dict_get(node.v, "submodule") = EmptyDict
                       /\ \A k \in dict_keys(summary) \cap InjectedKeys :
                              dict_get(node.v, k) # dict_get(summary, k)
                       /\ \A k \in dict_keys(summary) \ InjectedKeys :
                              dict_get(node.v, k) = dict_get(summary, k)

C10_Witness ==
    /\ lastCall.op = "get"
    /\ ret.t = "dict"
    /\ Chain("rec") = <<ModA, ModC, ModB>>
    /\ dict_get(NodeAt(dict_get(ret.v, "module"), 1).v, "module_level") = PyInt(1)
    /\ dict_get(NodeAt(dict_get(ret.v, "module"), 1).v, "shots") = PyInt(5)

\* the record that is not n, of the original and its copy
Other(n) == IF n = "rec" THEN "cp" ELSE "rec"

\* C3: appending a module to a record (at either end) or calling
\* sum_up_times() on it leaves a document that get() returned earlier as it
\* was; and once copy() has returned, such a call on the original or on the
\* copy leaves the other record's chain and total_time, and what get() returns
\* for it, as they were.
C3_CopyAndDocumentUnaffected ==
    [][lastCall'.op \in Appends \cup {"sum_up_times"}
          => /\ captured' = captured
             /\ "cp" \in DOMAIN records
                  => \A n \in {"rec", "cp"} :
                        lastCall'.self = n
                          => /\ Chain(Other(n))' = Chain(Other(n))
                             /\ TotalTime(Other(n))' = TotalTime(Other(n))
                             /\ get(deques', records'[Other(n)]).ret
                                    = get(deques, records[Other(n)]).ret]_vars

\* a document kept, a copy taken, and then a module appended to the original
C3_Witness ==
    /\ "cp" \in DOMAIN records
    /\ captured.t = "dict"
    /\ lastCall = [op |-> "append_module_record_left", self |-> "rec"]
    /\ Chain("cp") = <<ModA>>
    /\ Chain("rec") = <<ModE, ModA>>
    /\ ListsChain(dict_get(captured.v, "module"), <<ModA>>)
    /\ get(deques, records["cp"]).ret.t = "dict"

\* the (module_name, module_config) pairs of two chains are equal, in order
SamePairs(c1, c2) ==
    /\ Len(c1) = Len(c2)
    /\ \A i \in 1..Len(c1) :
          /\ c1[i].module_name = c2[i].module_name
          /\ dict_eq(c1[i].module_config, c2[i].module_config)

ConfigHash(n) == dict_get(get(deques, records[n]).ret.v, "config_hash")

\* C5: two independently built records whose chains hold equal ordered
\* sequences of (module_name, module_config) pairs have equal config_hash,
\* whatever the insertion order of the keys of each config, the modules'
\* total_time and summaries, the run metadata, and the end the modules were
\* appended at.
C5_HashOfEqualPairs ==
    (Chain("rec") # <<>> /\ SamePairs(Chain("rec"), Chain("other")))
        => ConfigHash("rec") = ConfigHash("other")

C5_Witness ==
    /\ Chain("rec") = <<HashBase, HashOtherName>>
    /\ Chain("other") = <<HashPermuted, HashOtherName>>
    /\ records["rec"].timestamp # records["other"].timestamp
    /\ ConfigHash("rec") = ConfigHash("other")

SamePair(m1, m2) ==
    /\ m1.module_name = m2.module_name
    /\ dict_eq(m1.module_config, m2.module_config)

\* chains of one length whose modules have equal pairs everywhere but at i
SamePairsBut(c1, c2, i) ==
    /\ Len(c1) = Len(c2)
    /\ i \in 1..Len(c1)
    /\ \A j \in 1..Len(c1) : j # i => SamePair(c1[j], c2[j])

DifferInOneName(c1, c2) ==
    \E i \in 1..Len(c1) :
        /\ SamePairsBut(c1, c2, i)
        /\ c1[i].module_name # c2[i].module_name
        /\ dict_eq(c1[i].module_config, c2[i].module_config)

DifferInOneKey(c1, c2) ==
    \E i \in 1..Len(c1) :
        /\ SamePairsBut(c1, c2, i)
        /\ c1[i].module_name = c2[i].module_name
        /\ LET k1 == dict_keys(c1[i].module_config)
               k2 == dict_keys(c2[i].module_config)
           IN  /\ k1 # k2
               /\ Cardinality(k1 \ k2) <= 1
               /\ Cardinality(k2 \ k1) <= 1
               /\ \A k \in k1 \cap k2 :
                      dict_get(c1[i].module_config, k) = dict_get(c2[i].module_config, k)

DifferInOneValue(c1, c2) ==
    \E i \in 1..Len(c1) :
        /\ SamePairsBut(c1, c2, i)
        /\ c1[i].module_name = c2[i].module_name
        /\ dict_keys(c1[i].module_config) = dict_keys(c2[i].module_config)
        /\ Cardinality({k \in dict_keys(c1[i].module_config) :
               dict_get(c1[i].module_config, k) # dict_get(c2[i].module_config, k)}) = 1

\* c2 is c1 with its i-th and j-th modules swapped
Swapped(c1, c2, i, j) == c2 = [c1 EXCEPT ![i] = c1[j], ![j] = c1[i]]

SwapOfDistinctModules(c1, c2) ==
    \E i, j \in 1..Len(c1) : i < j /\ c1[i] # c1[j] /\ Swapped(c1, c2, i, j)

SwapOfDifferentPairs(c1, c2) ==
    \E i, j \in 1..Len(c1) : i < j /\ ~SamePair(c1[i], c1[j]) /\ Swapped(c1, c2, i, j)

\* C6 as stated: two non-empty chains that differ in one module's name, in one
\* config key, in one config value, or by the swap of two distinct modules
\* have different config hashes.
C6_AsStated ==
    (/\ Chain("rec") # <<>>
     /\ Chain("other") # <<>>
     /\ \/ DifferInOneName(Chain("rec"), Chain("other"))
        \/ DifferInOneKey(Chain("rec"), Chain("other"))
        \/ DifferInOneValue(Chain("rec"), Chain("other"))
        \/ SwapOfDistinctModules(Chain("rec"), Chain("other")))
        => ConfigHash("rec") # ConfigHash("other")

\* C6, amended: two non-empty chains that differ in one module's name, in one
\* config key, in one config value, or by the swap of two modules whose
\* (module_name, module_config) pairs differ, are hashed from different
\* canonical strings and have different config hashes.
C6_HashSensitivity ==
    (/\ Chain("rec") # <<>>
     /\ Chain("other") # <<>>
     /\ \/ DifferInOneName(Chain("rec"), Chain("other"))
        \/ DifferInOneKey(Chain("rec"), Chain("other"))
        \/ DifferInOneValue(Chain("rec"), Chain("other"))
        \/ SwapOfDifferentPairs(Chain("rec"), Chain("other")))
        => ConfigHash("rec") # ConfigHash("other")

C6_Witness ==
    /\ Chain("rec") = <<HashBase, HashOtherValue>>
    /\ Chain("other") = <<HashOtherValue, HashBase>>
    /\ SwapOfDifferentPairs(Chain("rec"), Chain("other"))
    /\ ConfigHash("rec") # ConfigHash("other")

\* C9: whatever get() and sum_up_times() calls were made on a
\* BenchmarkRecordStored, the document it wraps is the one it was given, with
\* the contents it was given with; get() returns that document, and
\* sum_up_times() returns None.
C9_StoredPassthrough ==
    /\ stored = BenchmarkRecordStored(1)
    /\ documents[stored.record] = given
    /\ lastCall.op = "get" => ret = PyRef(stored.record)
    /\ lastCall.op = "sum_up_times" => ret = PyNone

C9_Witness ==
    /\ lastCall.op = "get"
    /\ ret = PyRef(1)
    /\ documents[1] = given
    /\ given # EmptyDict
    /\ dict_get(given.v, "total_time") = PyInt(35)
    /\ ListsChain(dict_get(given.v, "module"), <<ModA, ModB>>)

====
